---- MODULE Spec2Model ----
(***************************************************************************)
(* Groth09 homomorphic trapdoor commitments to group elements (src/lib.rs) *)
(* over a scaled-down pairing setting.                                     *)
(*                                                                         *)
(* The three groups of BLS12-381 are modelled by the cyclic group Z_Q in   *)
(* additive notation: an element is its discrete logarithm with respect to *)
(* the group's generator, the identity is 0 and the generator is 1.  The   *)
(* pairing of a*G1 and b*G2 is (a*b)*Gt.  A G2Affine additionally carries  *)
(* a cofactor component (tors): a point built without the subgroup check   *)
(* lies on the curve but outside the prime-order subgroup.                 *)
(***************************************************************************)
EXTENDS Integers, Sequences, FiniteSets, TLC

\* Length of the value vectors and of the key arrays (const generic N).
N == 2
\* Order of the groups G1, G2, Gt and of the scalar field.
Q == 3

VARIABLES
    rng,       \* thread_rng(): the output stream and the number of scalars drawn
    key,       \* the shared CommitmentKey<N>: <<>> before generate(), <<k>> after
    values,    \* values[i]: committer i's Values<N>, <<>> or <<v>>
    rands,     \* rands[i]: committer i's Randomness, <<>> or <<r>>
    comms,     \* comms[i]: the Commitment returned by commit(), <<>> or <<c>>
    opened,    \* opened[i]: commit_with_randomness(values[i], rands[i]), <<>> or <<c>>
    v_mul,     \* &v1 * &v2
    r_mul,     \* &r1 * &r2
    actual,    \* c1.mul(&c2)
    expected,  \* commit_with_randomness(&v_mul, &r_mul)
    out,       \* the result of a repeated commit_with_randomness call
    bytes,     \* bytes[i]: outcome of values[i].to_bytes()
    decoded    \* outcome of Values::from_bytes(..)

vars == <<rng, key, values, rands, comms, opened, v_mul, r_mul, actual,
          expected, out, bytes, decoded>>

\* The two committers sharing the key (v1/r1/c1 and v2/r2/c2 of the tests).
Slots == {1, 2}

None == <<>>
Some(x) == <<x>>
Get(o) == o[1]

----------------------------------------------------------------------------
(* The pairing-friendly curve library (bls12_381, ff, group).              *)

Scalar == 0 .. (Q - 1)
G1Affine == 0 .. (Q - 1)
Gt == 0 .. (Q - 1)
G2Affine == [x : 0 .. (Q - 1), tors : BOOLEAN]

\* G1Affine::generator(), G2Affine::generator()
G1Generator == 1
G2Generator == [x |-> 1, tors |-> FALSE]

\* is_torsion_free(): membership of the prime-order subgroup
IsTorsionFree(p) == ~p.tors

\* generator * r in G1
G1Mul(p, r) == (p * r) % Q

\* generator * r in G2
G2Mul(p, r) == [x |-> (p.x * r) % Q, tors |-> p.tors /\ (r % 2 = 1)]

\* G2Affine + G2Projective, converted back to affine
G2Add(p, q) == [x |-> (p.x + q.x) % Q, tors |-> p.tors # q.tors]

\* Gt + Gt
GtAdd(a, b) == (a + b) % Q

\* pairing(&G1Affine, &G2Affine) -> Gt; the final exponentiation removes the
\* cofactor component
pairing(p, q) == (p * q.x) % Q

\* Scalar::random(rng): the next scalar of the generator's stream, and the
\* generator after the draw.  A stream is named by (seed, step); its k-th
\* output is seed + k*step in the scalar field.
ScalarRandom(g) ==
    [val |-> (g.seed + g.step * g.pos) % Q,
     rng |-> [g EXCEPT !.pos = @ + 1]]

RngStreams == [seed : Scalar, step : Scalar, pos : {0}]

----------------------------------------------------------------------------
(* src/lib.rs                                                              *)

\* fn gen_g1_elem(rng, generator)
gen_g1_elem(g, generator) ==
    LET d == ScalarRandom(g)
    IN  [elem |-> G1Mul(generator, d.val), rng |-> d.rng]

\* fn gen_g2_elem(rng, generator)
gen_g2_elem(g, generator) ==
    LET d == ScalarRandom(g)
    IN  [elem |-> G2Mul(generator, d.val), rng |-> d.rng]

\* Randomness::gen(rng)
RandomnessGen(g) ==
    LET r == gen_g2_elem(g, G2Generator)
        s == gen_g2_elem(r.rng, G2Generator)
    IN  [randomness |-> [r |-> r.elem, s |-> s.elem], rng |-> s.rng]

\* The loop of CommitmentKey::generate: one g and one h per index.
RECURSIVE GenerateLoop(_, _, _, _)
GenerateLoop(g, i, g_vec, h_vec) ==
    IF i >= N
    THEN [g_vec |-> g_vec, h_vec |-> h_vec, rng |-> g]
    ELSE LET ge == gen_g1_elem(g, G1Generator)
             he == gen_g1_elem(ge.rng, G1Generator)
         IN  GenerateLoop(he.rng, i + 1, Append(g_vec, ge.elem),
                          Append(h_vec, he.elem))

\* CommitmentKey::generate()
generate(g) ==
    LET arrs == GenerateLoop(g, 0, <<>>, <<>>)
        gr == gen_g1_elem(arrs.rng, G1Generator)
        hr == gen_g1_elem(gr.rng, G1Generator)
        gs == gen_g1_elem(hr.rng, G1Generator)
        hs == gen_g1_elem(gs.rng, G1Generator)
    IN  [key |-> [g_arr |-> arrs.g_vec, h_arr |-> arrs.h_vec,
                  gr |-> gr.elem, hr |-> hr.elem,
                  gs |-> gs.elem, hs |-> hs.elem],
         rng |-> hs.rng]

\* The loop stops one pair early.
RECURSIVE ZipPairingSum_short(_, _, _, _)
ZipPairingSum_short(acc, arr, vals, i) ==
    IF i >= Len(arr) \/ i >= Len(vals)
    THEN acc
    ELSE ZipPairingSum_short(GtAdd(acc, pairing(arr[i], vals[i])), arr, vals,
                             i + 1)

\* for (g, v) in zip(arr, vals) { acc += pairing(g, v) }
RECURSIVE ZipPairingSum(_, _, _, _)
ZipPairingSum(acc, arr, vals, i) ==
    IF i > Len(arr) \/ i > Len(vals)
    THEN acc
    ELSE ZipPairingSum(GtAdd(acc, pairing(arr[i], vals[i])), arr, vals, i + 1)

\* The blinding terms are taken from the thread's generator instead of the
\* caller's randomness.
commit_with_randomness_ambient(k, value, randomness) ==
    LET fresh == RandomnessGen(rng).randomness
        c0 == GtAdd(pairing(k.gr, fresh.r), pairing(k.gs, fresh.s))
        d0 == GtAdd(pairing(k.hr, fresh.r), pairing(k.hs, fresh.s))
    IN  [c |-> ZipPairingSum(c0, k.g_arr, value, 1),
         d |-> ZipPairingSum(d0, k.h_arr, value, 1)]

\* CommitmentKey::commit_with_randomness(&self, value, randomness)
commit_with_randomness(k, value, randomness) ==
    LET c0 == GtAdd(pairing(k.gr, randomness.r), pairing(k.gs, randomness.s))
        d0 == GtAdd(pairing(k.hr, randomness.r), pairing(k.hs, randomness.s))
    IN  [c |-> ZipPairingSum(c0, k.g_arr, value, 1),
         d |-> ZipPairingSum(d0, k.h_arr, value, 1)]

\* The randomness handed back is drawn again instead of being the one used.
commit_resampled(k, value, g) ==
    LET fresh == RandomnessGen(g)
        again == RandomnessGen(fresh.rng)
    IN  [commitment |-> commit_with_randomness(k, value, fresh.randomness),
         randomness |-> again.randomness,
         rng |-> again.rng]

\* CommitmentKey::commit(&self, value)
commit(k, value, g) ==
    LET fresh == RandomnessGen(g)
    IN  [commitment |-> commit_with_randomness(k, value, fresh.randomness),
         randomness |-> fresh.randomness,
         rng |-> fresh.rng]

\* The right operand is added twice.
RECURSIVE MulValuesLoop_skewed(_, _, _, _)
MulValuesLoop_skewed(lhs, rhs, i, acc) ==
    IF i > N
    THEN acc
    ELSE MulValuesLoop_skewed(lhs, rhs, i + 1,
             Append(acc, G2Add(G2Add(lhs[i], rhs[i]), rhs[i])))

MulValues_skewed(lhs, rhs) == MulValuesLoop_skewed(lhs, rhs, 1, <<>>)

\* impl Mul for &Values<N>
RECURSIVE MulValuesLoop(_, _, _, _)
MulValuesLoop(lhs, rhs, i, acc) ==
    IF i > N
    THEN acc
    ELSE MulValuesLoop(lhs, rhs, i + 1, Append(acc, G2Add(lhs[i], rhs[i])))

MulValues(lhs, rhs) == MulValuesLoop(lhs, rhs, 1, <<>>)

\* r is added to s and s to r.
MulRandomness_mixed(lhs, rhs) ==
    [r |-> G2Add(lhs.r, rhs.s), s |-> G2Add(lhs.s, rhs.r)]

\* impl Mul for &Randomness
MulRandomness(lhs, rhs) ==
    [r |-> G2Add(lhs.r, rhs.r), s |-> G2Add(lhs.s, rhs.s)]

\* The d component of the right operand is dropped.
MulCommitment_left_d(lhs, rhs) ==
    [c |-> GtAdd(lhs.c, rhs.c), d |-> lhs.d]

\* impl Mul for &Commitment
MulCommitment(lhs, rhs) ==
    [c |-> GtAdd(lhs.c, rhs.c), d |-> GtAdd(lhs.d, rhs.d)]

\* The panic raised by todo!()
Todo == "todo"

----------------------------------------------------------------------------
(* Inputs                                                                  *)

RECURSIVE Vectors(_, _)
Vectors(S, n) ==
    IF n = 0 THEN {<<>>}
    ELSE {Append(v, e) : v \in Vectors(S, n - 1), e \in S}

\* The discrete logarithms of the points callers pass in: the identity, the
\* generator and the generator's inverse.
SampleLogs == {0, 1, Q - 1}

\* Points of the prime-order subgroup, as G2Projective::random and the checked
\* decoders of the curve library produce them.
SubgroupPoints == {p \in G2Affine : p.x \in SampleLogs /\ IsTorsionFree(p)}

\* Arbitrary curve points, as the unchecked decoders produce them.
CurvePoints == {p \in G2Affine : p.x \in SampleLogs}

SubgroupVectors == Vectors(SubgroupPoints, N)
CurveVectors == Vectors(CurvePoints, N)

\* Byte buffers handed to Values::from_bytes.
ByteBuffers == {<<>>, <<0>>, <<0, 1>>}

----------------------------------------------------------------------------
(* State machine                                                           *)

Init ==
    /\ rng \in RngStreams
    /\ key = None
    /\ values = [i \in Slots |-> None]
    /\ rands = [i \in Slots |-> None]
    /\ comms = [i \in Slots |-> None]
    /\ opened = [i \in Slots |-> None]
    /\ v_mul = None
    /\ r_mul = None
    /\ actual = None
    /\ expected = None
    /\ out = None
    /\ bytes = [i \in Slots |-> None]
    /\ decoded = None

\* let ck = CommitmentKey::<N>::generate();
Generate ==
    /\ key = None
    /\ LET res == generate(rng)
       IN  /\ key' = Some(res.key)
           /\ rng' = res.rng
    /\ UNCHANGED <<values, rands, comms, opened, v_mul, r_mul, actual,
                   expected, out, bytes, decoded>>

\* let v = Values::new(arr);
NewValues(i, arr) ==
    /\ values[i] = None
    /\ values' = [values EXCEPT ![i] = Some(arr)]
    /\ UNCHANGED <<rng, key, rands, comms, opened, v_mul, r_mul, actual,
                   expected, out, bytes, decoded>>

\* let r = Randomness::gen(&mut thread_rng());
Gen(i) ==
    /\ rands[i] = None
    /\ LET res == RandomnessGen(rng)
       IN  /\ rands' = [rands EXCEPT ![i] = Some(res.randomness)]
           /\ rng' = res.rng
    /\ UNCHANGED <<key, values, comms, opened, v_mul, r_mul, actual,
                   expected, out, bytes, decoded>>

\* let (c, r) = ck.commit(&v);
Commit(i) ==
    /\ key # None
    /\ values[i] # None
    /\ rands[i] = None
    /\ LET res == commit(Get(key), Get(values[i]), rng)
       IN  /\ comms' = [comms EXCEPT ![i] = Some(res.commitment)]
           /\ rands' = [rands EXCEPT ![i] = Some(res.randomness)]
           /\ rng' = res.rng
    /\ UNCHANGED <<key, values, opened, v_mul, r_mul, actual, expected,
                   out, bytes, decoded>>

\* The call samples from the thread's generator.
CommitWithRandomness_sampling(i) ==
    /\ key # None
    /\ values[i] # None
    /\ rands[i] # None
    /\ opened[i] = None
    /\ opened' = [opened EXCEPT ![i] =
                    Some(commit_with_randomness(Get(key), Get(values[i]),
                                                Get(rands[i])))]
    /\ rng' = RandomnessGen(rng).rng
    /\ UNCHANGED <<key, values, rands, comms, v_mul, r_mul, actual,
                   expected, out, bytes, decoded>>

\* let d = ck.commit_with_randomness(&v, &r);
CommitWithRandomness(i) ==
    /\ key # None
    /\ values[i] # None
    /\ rands[i] # None
    /\ opened[i] = None
    /\ opened' = [opened EXCEPT ![i] =
                    Some(commit_with_randomness(Get(key), Get(values[i]),
                                                Get(rands[i])))]
    /\ UNCHANGED <<rng, key, values, rands, comms, v_mul, r_mul, actual,
                   expected, out, bytes, decoded>>

\* let v_mul = &v1 * &v2;
ComposeValues ==
    /\ values[1] # None
    /\ values[2] # None
    /\ v_mul = None
    /\ v_mul' = Some(MulValues(Get(values[1]), Get(values[2])))
    /\ UNCHANGED <<rng, key, values, rands, comms, opened, r_mul, actual,
                   expected, out, bytes, decoded>>

\* let r_mul = &r1 * &r2;
ComposeRandomness ==
    /\ rands[1] # None
    /\ rands[2] # None
    /\ r_mul = None
    /\ r_mul' = Some(MulRandomness(Get(rands[1]), Get(rands[2])))
    /\ UNCHANGED <<rng, key, values, rands, comms, opened, v_mul, actual,
                   expected, out, bytes, decoded>>

\* let actual = c1.mul(&c2);
ComposeCommitments ==
    /\ opened[1] # None
    /\ opened[2] # None
    /\ actual = None
    /\ actual' = Some(MulCommitment(Get(opened[1]), Get(opened[2])))
    /\ UNCHANGED <<rng, key, values, rands, comms, opened, v_mul, r_mul,
                   expected, out, bytes, decoded>>

\* let expected = ck.commit_with_randomness(&v_mul, &r_mul);
CommitComposed ==
    /\ key # None
    /\ v_mul # None
    /\ r_mul # None
    /\ expected = None
    /\ expected' = Some(commit_with_randomness(Get(key), Get(v_mul),
                                               Get(r_mul)))
    /\ UNCHANGED <<rng, key, values, rands, comms, opened, v_mul, r_mul,
                   actual, out, bytes, decoded>>

\* let d2 = ck.commit_with_randomness(&v, &r);  -- a second call on the same
\* key, value and randomness
CommitWithRandomnessAgain(i) ==
    /\ key # None
    /\ values[i] # None
    /\ rands[i] # None
    /\ opened[i] # None
    /\ out = None
    /\ out' = Some(commit_with_randomness(Get(key), Get(values[i]),
                                          Get(rands[i])))
    /\ UNCHANGED <<rng, key, values, rands, comms, opened, v_mul, r_mul,
                   actual, expected, bytes, decoded>>

\* let b = v.to_bytes();  -- todo!() panics
ToBytes(i) ==
    /\ values[i] # None
    /\ bytes[i] = None
    /\ bytes' = [bytes EXCEPT ![i] = Some(Todo)]
    /\ UNCHANGED <<rng, key, values, rands, comms, opened, v_mul, r_mul,
                   actual, expected, out, decoded>>

\* let v = Values::from_bytes(buf);  -- todo!() panics
FromBytes(buf) ==
    /\ decoded = None
    /\ decoded' = Some(Todo)
    /\ UNCHANGED <<rng, key, values, rands, comms, opened, v_mul, r_mul,
                   actual, expected, out, bytes>>

\* Two committers share one key: each builds its value vector, commits to it
\* and opens the commitment; an aggregator composes the values, the
\* randomness and the commitments (tests::it_works and
\* tests::multiplicatively_homomorphic, in any interleaving).
Next ==
    \/ Generate
    \/ \E i \in Slots, arr \in SubgroupVectors : NewValues(i, arr)
    \/ \E i \in Slots : Commit(i)
    \/ \E i \in Slots : CommitWithRandomness(i)
    \/ ComposeValues
    \/ ComposeRandomness
    \/ ComposeCommitments
    \/ CommitComposed

Spec == Init /\ [][Next]_vars

\* One caller uses the whole public interface on value vectors of arbitrary
\* curve points, while Randomness::gen keeps drawing from the generator.
NextApi ==
    \/ Generate
    \/ \E arr \in CurveVectors : NewValues(1, arr)
    \/ \E i \in Slots : Gen(i)
    \/ Commit(1)
    \/ CommitWithRandomness(1)
    \/ CommitWithRandomnessAgain(1)
    \/ ToBytes(1)
    \/ \E buf \in ByteBuffers : FromBytes(buf)

SpecApi == Init /\ [][NextApi]_vars

----------------------------------------------------------------------------
(* Properties                                                              *)

\* The sum of terms[order[1]], ..., terms[order[n]] in the target group.
RECURSIVE SumInOrder(_, _, _)
SumInOrder(terms, order, n) ==
    IF n = 0 THEN 0
    ELSE GtAdd(SumInOrder(terms, order, n - 1), terms[order[n]])

\* One component of a commitment as the sum of section 4.2, with the N value
\* terms added in the given order.
ComponentSum(er, es, arr, value, randomness, order) ==
    GtAdd(GtAdd(pairing(er, randomness.r), pairing(es, randomness.s)),
          SumInOrder([k \in 1 .. N |-> pairing(arr[k], value[k])], order, N))

FormulaHolds(k, value, randomness, com) ==
    \A order \in Permutations(1 .. N) :
        /\ com.c = ComponentSum(k.gr, k.gs, k.g_arr, value, randomness, order)
        /\ com.d = ComponentSum(k.hr, k.hs, k.h_arr, value, randomness, order)

\* C1: composing the commitments to (v1, r1) and (v2, r2) under one key gives
\* exactly the commitment to (v1 * v2, r1 * r2), in both components.
Homomorphism ==
    (actual # None /\ expected # None) => actual = expected

HomomorphismWitness ==
    /\ actual # None
    /\ expected # None
    /\ values[1] # values[2]
    /\ Get(actual).c # 0
    /\ Get(actual).d # 0

\* C2: the randomness returned by commit is the one the returned commitment
\* was computed with: commit_with_randomness on it gives the same commitment.
OpeningConsistency ==
    \A i \in Slots :
        (comms[i] # None /\ opened[i] # None) => opened[i] = comms[i]

OpeningConsistencyWitness ==
    /\ comms[1] # None
    /\ opened[1] # None
    /\ Get(rands[1]).r # Get(rands[1]).s
    /\ Get(comms[1]).c # 0

\* C3: commit_with_randomness returns c = e(gr, r) + e(gs, s) + the sum of
\* e(g[i], value[i]) and d = e(hr, r) + e(hs, s) + the sum of e(h[i], value[i]),
\* each index counted once, whatever the order of summation.
CommitmentFormula ==
    /\ \A i \in Slots :
          opened[i] # None =>
              FormulaHolds(Get(key), Get(values[i]), Get(rands[i]),
                           Get(opened[i]))
    /\ expected # None =>
          FormulaHolds(Get(key), Get(v_mul), Get(r_mul), Get(expected))

CommitmentFormulaWitness ==
    /\ opened[1] # None
    /\ \A k \in 1 .. N :
          /\ pairing(Get(key).g_arr[k], Get(values[1])[k]) # 0
          /\ pairing(Get(key).h_arr[k], Get(values[1])[k]) # 0
    /\ Get(values[1])[1] # Get(values[1])[N]

\* C4: every element of a generated key is a non-identity element of G1.
KeyElementsNonIdentity ==
    key # None =>
        /\ \A k \in 1 .. N : Get(key).g_arr[k] # 0 /\ Get(key).h_arr[k] # 0
        /\ Get(key).gr # 0
        /\ Get(key).hr # 0
        /\ Get(key).gs # 0
        /\ Get(key).hs # 0

MalformedInputRejected ==
    \A i \in Slots :
        (values[i] # None /\ \E k \in 1 .. N : ~IsTorsionFree(Get(values[i])[k]))
            => (opened[i] = None /\ comms[i] = None)

\* C7: encoding a value vector succeeds, and decoding succeeds as well.
EncodingRoundTrip ==
    /\ \A i \in Slots : bytes[i] # None => Get(bytes[i]) # Todo
    /\ decoded # None => Get(decoded) # Todo

\* C8: commit, commit_with_randomness and the compositions leave the key and
\* every existing value vector, randomness pair and commitment as they are;
\* entropy is consumed only by key generation and by commit's sampling, never
\* by commit_with_randomness or a composition.
FrameStep ==
    /\ key # None => key' = key
    /\ \A i \in Slots :
          /\ values[i] # None => values'[i] = values[i]
          /\ rands[i] # None => rands'[i] = rands[i]
          /\ comms[i] # None => comms'[i] = comms[i]
          /\ opened[i] # None => opened'[i] = opened[i]
    /\ v_mul # None => v_mul' = v_mul
    /\ r_mul # None => r_mul' = r_mul
    /\ actual # None => actual' = actual
    /\ expected # None => expected' = expected
    /\ rng' # rng => (key' # key \/ comms' # comms)
    /\ (\/ opened' # opened
        \/ expected' # expected
        \/ v_mul' # v_mul
        \/ r_mul' # r_mul
        \/ actual' # actual) => rng' = rng

FrameAndEntropy == [][FrameStep]_vars

FrameAndEntropyWitness ==
    /\ actual # None
    /\ expected # None
    /\ comms[1] # None
    /\ comms[2] # None
    /\ rng.pos = 2 * N + 8

\* C9: the compositions act componentwise: the i-th composed value is the sum
\* of the two i-th values, the composed randomness is (r1 + r2, s1 + s2) and
\* the composed commitment is (c1 + c2, d1 + d2).
Componentwise ==
    /\ v_mul # None =>
          /\ Len(Get(v_mul)) = N
          /\ \A k \in 1 .. N :
                Get(v_mul)[k] = G2Add(Get(values[1])[k], Get(values[2])[k])
    /\ r_mul # None =>
          /\ Get(r_mul).r = G2Add(Get(rands[1]).r, Get(rands[2]).r)
          /\ Get(r_mul).s = G2Add(Get(rands[1]).s, Get(rands[2]).s)
    /\ actual # None =>
          /\ Get(actual).c = GtAdd(Get(opened[1]).c, Get(opened[2]).c)
          /\ Get(actual).d = GtAdd(Get(opened[1]).d, Get(opened[2]).d)

ComponentwiseWitness ==
    /\ v_mul # None
    /\ r_mul # None
    /\ actual # None
    /\ Get(rands[1]).r # Get(rands[1]).s
    /\ Get(rands[2]).r # Get(rands[2]).s
    /\ Get(opened[1]).c # Get(opened[1]).d
    /\ Get(values[1])[1] # Get(values[1])[N]

\* Both groupings of a, b, c composed in this order.
Groupings(Op(_, _), a, b, c) == {Op(Op(a, b), c), Op(a, Op(b, c))}

\* Every way of aggregating x[1], x[2], x[3]: any order, any grouping.
Aggregations(Op(_, _), x) ==
    UNION {Groupings(Op, x[p[1]], x[p[2]], x[p[3]]) : p \in Permutations(1 .. 3)}

\* C10: composition is commutative and associative on values, randomness and
\* commitments, so aggregating the commitments of a collection in any order
\* and grouping gives one commitment: that of the composed values under the
\* composed randomness.
AggregationOrderFree ==
    (opened[1] # None /\ opened[2] # None /\ expected # None) =>
        LET v == <<Get(values[1]), Get(values[2]), Get(v_mul)>>
            r == <<Get(rands[1]), Get(rands[2]), Get(r_mul)>>
            c == <<Get(opened[1]), Get(opened[2]), Get(expected)>>
        IN  /\ MulValues(v[1], v[2]) = MulValues(v[2], v[1])
            /\ MulRandomness(r[1], r[2]) = MulRandomness(r[2], r[1])
            /\ MulCommitment(c[1], c[2]) = MulCommitment(c[2], c[1])
            /\ Cardinality(Aggregations(MulValues, v)) = 1
            /\ Cardinality(Aggregations(MulRandomness, r)) = 1
            /\ Aggregations(MulCommitment, c) =
                   {commit_with_randomness(Get(key),
                        MulValues(MulValues(v[1], v[2]), v[3]),
                        MulRandomness(MulRandomness(r[1], r[2]), r[3]))}

AggregationOrderFreeWitness ==
    /\ opened[1] # None
    /\ opened[2] # None
    /\ expected # None
    /\ values[1] # values[2]
    /\ opened[1] # opened[2]
    /\ expected # opened[1]
    /\ expected # opened[2]

====
